---- MODULE Spec2Model ----
(***************************************************************************)
(* The generic in-process publish/subscribe broker of package pubsub       *)
(* (broker.go, events.go), as a state machine.  Every goroutine that can   *)
(* touch a Broker is a process of the model: callers of Publish, callers   *)
(* of Shutdown, callers of Subscribe, the watcher goroutine each Subscribe *)
(* starts, and the consumers that receive from the returned channels.      *)
(* A step of the model is one lock operation or one channel operation of   *)
(* the code, so that every interleaving the Go scheduler can produce is a  *)
(* behaviour of the model.  An unrecovered panic terminates the program.   *)
(***************************************************************************)
EXTENDS Integers, Sequences, FiniteSets

\* ------------------------------------------------------------------ bounds

\* Capacity of a subscription channel.  The source sets bufferSize = 64; the
\* model keeps the name and scales the value down so that a buffer fills
\* within MaxPublish calls.  No step of the model depends on the value.
bufferSize == 2

\* Number of subscription slots (Subscribe calls, each with its own scope).
MaxSubs == 2

\* Number of Publish calls the producers make in a run.
MaxPublish == 4

\* b.maxEvents.  NewBroker passes 1000; the model scales it down so that the
\* subscriptions of a run exceed it.  The broker stores it and never reads it.
maxEvents == 1

Subs == 1..MaxSubs
Pubs == {"p1", "p2"}
Closers == {"c1", "c2"}

\* events.go: the event tags.  The broker never reads the tag; the producers
\* tag their calls as Runtime.Run does: the first "created", the last of the
\* run "finished", the ones in between "updated".
EventTypes == {"created", "updated", "deleted", "finished"}

EventTypeOf(k) ==
    IF k = 1 THEN "created"
    ELSE IF k = MaxPublish THEN "finished"
    ELSE "updated"

\* No Publish call in progress.
NoCall == [t |-> "none", payload |-> 0]

\* A channel that make() has not created yet.
NoChan == [alloc |-> FALSE, cap |-> 0, buf |-> <<>>, closed |-> FALSE]

VARIABLES
    done,       \* b.done is closed
    subs,       \* b.subs: the keys of the map, as subscription slots
    subCount,   \* b.subCount
    mu,         \* b.mu: [writer: BOOLEAN, readers: Nat]
    chan,       \* the channel of each slot: [alloc, cap, buf, closed]
    cancelled,  \* ctx.Done() of each slot's scope is closed
    spc,        \* position of each Subscribe call
    wpc,        \* position of each watcher goroutine
    ppc,        \* position of each Publish caller
    pev,        \* the arguments (t, payload) of the Publish call in progress
    todo,       \* the part of the snapshot `subscribers` not yet ranged over
    sdpc,       \* position of each Shutdown caller
    panicked,   \* the run-time panic that terminated the program, or "none"
    pubLeft,    \* Publish calls each producer goroutine may still make
    active,     \* the Shutdown callers and subscription slots of this run
    channelBufferSize, \* the argument NewBrokerWithOptions was called with
    \* ---- history (not program state) ----
    nextId,     \* payload of the next Publish call: calls are numbered
    snap,       \* the whole snapshot of the Publish call in progress
    prior,      \* prior[k]: calls that had returned when call k was invoked
    received,   \* events each consumer has received, in order
    eos,        \* the consumer has observed the closed, drained channel
    closes,     \* how many times close(ch) ran on each slot's channel
    closedBy,   \* who closed each slot's channel: "watcher", "shutdown", "none"
    removedAt,  \* calls begun, plus one, when the slot left b.subs; 0: never
    subAt,      \* calls begun, plus one, when Subscribe took the lock; 0: never
    \* ---- the chat model and main (tui/chat, main.go) ----
    uiState,    \* "new", "running" (program.Run() in progress), "quit"
    uiCmd,      \* the waitForAgentMessage command: "none", "waiting", "returned"
    uiMsg,      \* the event the command returned, not yet handled by Update
    messages,   \* ListModel.messages: the payloads appended, in order
    \* ---- Runtime.Run (llm/agent/runtime.go) ----
    rpc,        \* position of each Run call
    revents,    \* the agent events iter.Next() has returned to each call
    rlog,       \* the Publish calls each Run call has made, in order
    \* ---- MemoryStore (llm/agent/store.go) ----
    smu,        \* s.mu: [writer: BOOLEAN, readers: Nat]
    smsgs,      \* s.msgs
    addpc,      \* position of each Add caller
    addmsg,     \* the message of the Add call in progress
    nextMsg,    \* messages are numbered as Add takes the lock
    added,      \* history: the messages passed to Add, in lock order
    listpc,     \* position of each List caller
    listed      \* the slice the latest List call of each caller returned

vars == <<done, subs, subCount, mu, chan, cancelled, spc, wpc, ppc, pev, todo,
          sdpc, panicked, pubLeft, active, channelBufferSize,
          nextId, snap, prior, received, eos,
          closes, closedBy, removedAt, subAt,
          uiState, uiCmd, uiMsg, messages, rpc, revents, rlog,
          smu, smsgs, addpc, addmsg, nextMsg, added, listpc, listed>>

uiVars == <<uiState, uiCmd, uiMsg, messages>>
runVars == <<rpc, revents, rlog>>
storeVars == <<smu, smsgs, addpc, addmsg, nextMsg, added, listpc, listed>>
appVars == <<uiVars, runVars, storeVars>>

brokerVars == <<done, subs, subCount, mu>>
histVars == <<active, channelBufferSize, nextId, snap, prior, received, eos,
              closes, closedBy, removedAt, subAt>>

\* ------------------------------------------------------------ sync.RWMutex

Running == panicked = "none"

CanLock == ~mu.writer /\ mu.readers = 0
CanRLock == ~mu.writer
Locked == [mu EXCEPT !.writer = TRUE]
Unlocked == [mu EXCEPT !.writer = FALSE]
RLocked == [mu EXCEPT !.readers = @ + 1]
RUnlocked == [mu EXCEPT !.readers = @ - 1]

\* ---------------------------------------------------------------- channels

\* Mutant of MakeChan: a new channel starts with the event of the latest
\* Publish call in its buffer.
MakeChanReplaying(n) ==
    [alloc |-> TRUE, cap |-> n,
     buf |-> IF nextId > 1
             THEN <<[Type |-> EventTypeOf(nextId - 1), Payload |-> nextId - 1]>>
             ELSE <<>>,
     closed |-> FALSE]

\* make(chan Event[T], n)
MakeChan(n) == [alloc |-> TRUE, cap |-> n, buf |-> <<>>, closed |-> FALSE]

\* Mutant of CloseChan: closing throws the buffered events away.
CloseChanDiscards(c) == [c EXCEPT !.closed = TRUE, !.buf = <<>>]

\* close(ch) on an open channel
CloseChan(c) == [c EXCEPT !.closed = TRUE]

\* Mutant of SendOutcome: a closed channel takes the event like an open one.
SendOutcomeIgnoresClosed(c) ==
    IF Len(c.buf) < c.cap THEN "sent" ELSE "dropped"

\* `select { case sub <- event: default: }`: what the send does on channel c.
\* A send on a closed channel panics, also inside a select with a default.
SendOutcome(c) ==
    IF c.closed THEN "panic"
    ELSE IF Len(c.buf) < c.cap THEN "sent"
    ELSE "dropped"

\* Mutant of ChanSend: the event is put at the head of the buffer.
ChanSendFront(c, e) == [c EXCEPT !.buf = <<e>> \o @]

\* The channel after `sub <- event` was chosen.
ChanSend(c, e) == [c EXCEPT !.buf = Append(@, e)]

\* Mutant of ChanAfterSelect: on a full buffer the oldest event is evicted
\* to make room for the new one.
ChanAfterSelectEvicts(c, e) ==
    IF SendOutcome(c) = "sent" THEN ChanSend(c, e)
    ELSE [c EXCEPT !.buf = Append(Tail(@), e)]

\* The channel after the whole select: the send, or the default branch,
\* which does nothing.
ChanAfterSelect(c, e) ==
    IF SendOutcome(c) = "sent" THEN ChanSend(c, e) ELSE c

\* Mutant of MakeEvent: the tag is not copied into the event.
MakeEventUntagged(t, payload) == [Type |-> "", Payload |-> payload]

\* `event := Event[T]{Type: t, Payload: payload}`
MakeEvent(t, payload) == [Type |-> t, Payload |-> payload]

\* Mutant of Unregister: the delete is forgotten.
UnregisterForgets(S, ch) == S

\* Mutant of Unregister: the whole map is cleared.
UnregisterAll(S, ch) == {}

\* `delete(b.subs, ch)`
Unregister(S, ch) == S \ {ch}

\* ------------------------------------------- the program around the broker

\* The goroutines that call Runtime.Run, MemoryStore.Add and MemoryStore.List.
Runs == {"r1", "r2"}
Adders == {"a1", "a2"}
Listers == {"l1"}

\* No event returned by the waitForAgentMessage command.
NoEvent == [Type |-> "none", Payload |-> 0]

\* The zero value of Event[adk.Message], which a receive on a closed, drained
\* channel returns: the empty tag and a nil payload.
ZeroEvent == [Type |-> "", Payload |-> 0]

\* No Add call in progress.
NoMessage == [id |-> 0, Role |-> "none", len |-> 0, cut |-> 0, truncated |-> FALSE]

\* The chat model before InitialModel, no Run call made, and the MemoryStore
\* as NewMemoryStore returns it.
AppInit ==
    /\ uiState = "new"
    /\ uiCmd = "none"
    /\ uiMsg = NoEvent
    /\ messages = <<>>
    /\ rpc = [r \in Runs |-> "idle"]
    /\ revents = [r \in Runs |-> <<>>]
    /\ rlog = [r \in Runs |-> <<>>]
    /\ smu = [writer |-> FALSE, readers |-> 0]
    /\ smsgs = <<>>
    /\ addpc = [a \in Adders |-> "idle"]
    /\ addmsg = [a \in Adders |-> NoMessage]
    /\ nextMsg = 1
    /\ added = <<>>
    /\ listpc = [l \in Listers |-> "idle"]
    /\ listed = [l \in Listers |-> <<>>]

\* ---------------------------------------------------- NewBrokerWithOptions

\* The broker as NewBrokerWithOptions returns it, and the goroutines of the
\* run: budget[p] Publish calls for producer p, the Shutdown callers and the
\* subscription slots in `procs`.  `capacity` is the channelBufferSize
\* argument; no field of the Broker keeps it.
Setup(capacity, budget, procs) ==
    /\ done = FALSE
    /\ subs = {}
    /\ subCount = 0
    /\ mu = [writer |-> FALSE, readers |-> 0]
    /\ chan = [i \in Subs |-> NoChan]
    /\ cancelled = [i \in Subs |-> FALSE]
    /\ spc = [i \in Subs |-> "idle"]
    /\ wpc = [i \in Subs |-> "none"]
    /\ ppc = [p \in Pubs |-> "idle"]
    /\ pev = [p \in Pubs |-> NoCall]
    /\ todo = [p \in Pubs |-> {}]
    /\ sdpc = [c \in Closers |-> "idle"]
    /\ panicked = "none"
    /\ pubLeft = budget
    /\ active = procs
    /\ channelBufferSize = capacity
    /\ nextId = 1
    /\ snap = [p \in Pubs |-> {}]
    /\ prior = [k \in 1..MaxPublish |-> {}]
    /\ received = [i \in Subs |-> <<>>]
    /\ eos = [i \in Subs |-> FALSE]
    /\ closes = [i \in Subs |-> 0]
    /\ closedBy = [i \in Subs |-> "none"]
    /\ removedAt = [i \in Subs |-> 0]
    /\ subAt = [i \in Subs |-> 0]
    /\ AppInit

\* One producer making MaxPublish calls in sequence, two goroutines calling
\* Shutdown, MaxSubs subscriptions.
Init == Setup(bufferSize, [p \in Pubs |-> IF p = "p1" THEN MaxPublish ELSE 0],
              [closers |-> Closers, slots |-> Subs])

\* ---------------------------------------------------------------- Shutdown

\* `select { case <-b.done: return; default: ... }`: the read of b.done.
ShutdownAlreadyDone == done

\* Caller c calls b.Shutdown() (again, when an earlier call of its has
\* returned) and reads b.done.
Shutdown_Check(c) ==
    /\ Running
    /\ c \in active.closers
    /\ sdpc[c] \in {"idle", "returned"}
    /\ sdpc' = [sdpc EXCEPT ![c] = IF ShutdownAlreadyDone THEN "returned"
                                   ELSE "close"]
    /\ UNCHANGED <<brokerVars, chan, cancelled, spc, wpc, ppc, pev, todo,
                   panicked, pubLeft, histVars, appVars>>

\* `close(b.done)` in the default branch: a step of its own, after the read
\* and outside the lock.  Closing a closed channel panics.
Shutdown_CloseDone(c) ==
    /\ Running
    /\ sdpc[c] = "close"
    /\ IF done
       THEN /\ panicked' = "close of closed channel: b.done"
            /\ UNCHANGED <<done, sdpc>>
       ELSE /\ done' = TRUE
            /\ sdpc' = [sdpc EXCEPT ![c] = "lock"]
            /\ UNCHANGED panicked
    /\ UNCHANGED <<subs, subCount, mu, chan, cancelled, spc, wpc, ppc, pev,
                   todo, pubLeft, histVars, appVars>>

\* `b.mu.Lock()`
Shutdown_Lock(c) ==
    /\ Running
    /\ sdpc[c] = "lock"
    /\ CanLock
    /\ mu' = Locked
    /\ sdpc' = [sdpc EXCEPT ![c] = "sweep"]
    /\ UNCHANGED <<done, subs, subCount, chan, cancelled, spc, wpc, ppc, pev,
                   todo, panicked, pubLeft, histVars, appVars>>

\* Mutant of Shutdown_Sweep: the loop closes every channel and leaves the
\* map as it is (each channel is visited once).
Shutdown_SweepKeeps(c) ==
    /\ Running
    /\ sdpc[c] = "sweep"
    /\ \E ch \in {k \in subs : ~chan[k].closed} :
          /\ chan' = [chan EXCEPT ![ch] = CloseChan(@)]
          /\ closes' = [closes EXCEPT ![ch] = @ + 1]
          /\ closedBy' = [closedBy EXCEPT ![ch] = "shutdown"]
          /\ removedAt' = [removedAt EXCEPT ![ch] = nextId]
    /\ UNCHANGED <<done, subs, subCount, mu, cancelled, spc, wpc, ppc, pev, todo,
                   sdpc, panicked, pubLeft, nextId, snap, prior, received, eos,
                   active, channelBufferSize, subAt, appVars>>

\* One iteration of `for ch := range b.subs { delete(b.subs, ch); close(ch) }`.
Shutdown_Sweep(c) ==
    /\ Running
    /\ sdpc[c] = "sweep"
    /\ \E ch \in subs :
          /\ subs' = Unregister(subs, ch)
          /\ IF chan[ch].closed
             THEN /\ panicked' = "close of closed channel: sub"
                  /\ UNCHANGED <<chan, closes, closedBy, removedAt>>
             ELSE /\ chan' = [chan EXCEPT ![ch] = CloseChan(@)]
                  /\ closes' = [closes EXCEPT ![ch] = @ + 1]
                  /\ closedBy' = [closedBy EXCEPT ![ch] = "shutdown"]
                  /\ removedAt' = [removedAt EXCEPT ![ch] = nextId]
                  /\ UNCHANGED panicked
    /\ UNCHANGED <<done, subCount, mu, cancelled, spc, wpc, ppc, pev, todo,
                   sdpc, pubLeft, nextId, snap, prior, received, eos, active,
                   channelBufferSize, subAt, appVars>>

\* Mutant of Shutdown_Finish: the counter is not reset.
Shutdown_FinishKeepsCount(c) ==
    /\ Running
    /\ sdpc[c] = "sweep"
    /\ subs = {}
    /\ mu' = Unlocked
    /\ sdpc' = [sdpc EXCEPT ![c] = "returned"]
    /\ UNCHANGED <<done, subs, subCount, chan, cancelled, spc, wpc, ppc, pev,
                   todo, panicked, pubLeft, histVars, appVars>>

\* The range is over: `b.subCount = 0`, the deferred `b.mu.Unlock()`, return.
Shutdown_Finish(c) ==
    /\ Running
    /\ sdpc[c] = "sweep"
    /\ subs = {}
    /\ subCount' = 0
    /\ mu' = Unlocked
    /\ sdpc' = [sdpc EXCEPT ![c] = "returned"]
    /\ UNCHANGED <<done, subs, chan, cancelled, spc, wpc, ppc, pev, todo,
                   panicked, pubLeft, histVars, appVars>>

\* --------------------------------------------------------------- Subscribe

\* b.Subscribe(ctx) for slot i: `b.mu.Lock()`.
Subscribe_Lock(i) ==
    /\ Running
    /\ i \in active.slots
    /\ spc[i] = "idle"
    /\ CanLock
    /\ mu' = Locked
    /\ spc' = [spc EXCEPT ![i] = "check"]
    /\ subAt' = [subAt EXCEPT ![i] = nextId]
    /\ UNCHANGED <<done, subs, subCount, chan, cancelled, wpc, ppc, pev, todo,
                   sdpc, panicked, pubLeft, active, channelBufferSize, nextId,
                   snap, prior, received, eos, closes, closedBy, removedAt,
                   appVars>>

\* Mutant of SubscribeSeesDone: Subscribe does not look at b.done.
SubscribeIgnoresDone == FALSE

\* `select { case <-b.done: ...; default: }` under the lock: the read.
SubscribeSeesDone == done

\* Mutant of ClosedStream: the channel is returned without the close.
ClosedStreamLeftOpen == MakeChan(0)

\* `ch := make(chan Event[T]); close(ch)`: the stream a shut-down broker
\* returns, unbuffered and closed.
ClosedStream == CloseChan(MakeChan(0))

\* `select { case <-b.done: ch := make(chan Event[T]); close(ch); return ch;
\* default: }`
Subscribe_Check(i) ==
    /\ Running
    /\ spc[i] = "check"
    /\ IF SubscribeSeesDone
       THEN /\ chan' = [chan EXCEPT ![i] = ClosedStream]
            /\ closes' = [closes EXCEPT ![i] = @ + 1]
            /\ closedBy' = [closedBy EXCEPT ![i] = "subscribe"]
            /\ mu' = Unlocked
            /\ spc' = [spc EXCEPT ![i] = "returned"]
       ELSE /\ spc' = [spc EXCEPT ![i] = "register"]
            /\ UNCHANGED <<chan, closes, closedBy, mu>>
    /\ UNCHANGED <<done, subs, subCount, cancelled, wpc, ppc, pev, todo, sdpc,
                   panicked, pubLeft, nextId, snap, prior, received, eos, active,
                   channelBufferSize, subAt, appVars, removedAt>>

\* Mutant of Subscribe_Register: maxEvents is a hard limit on subscribers;
\* beyond it Subscribe returns a closed stream and registers nothing.
Subscribe_RegisterLimited(i) ==
    /\ Running
    /\ spc[i] = "register"
    /\ IF subCount >= maxEvents
       THEN /\ chan' = [chan EXCEPT ![i] = ClosedStream]
            /\ closes' = [closes EXCEPT ![i] = @ + 1]
            /\ closedBy' = [closedBy EXCEPT ![i] = "subscribe"]
            /\ UNCHANGED <<subs, subCount, wpc>>
       ELSE /\ chan' = [chan EXCEPT ![i] = MakeChan(bufferSize)]
            /\ subs' = subs \cup {i}
            /\ subCount' = subCount + 1
            /\ wpc' = [wpc EXCEPT ![i] = "wait"]
            /\ UNCHANGED <<closes, closedBy>>
    /\ mu' = Unlocked
    /\ spc' = [spc EXCEPT ![i] = "returned"]
    /\ UNCHANGED <<done, cancelled, ppc, pev, todo, sdpc, panicked, pubLeft,
                   active, channelBufferSize, subAt, appVars, nextId, snap, prior, received,
                   eos, removedAt>>

\* `sub := make(chan Event[T], bufferSize); b.subs[sub] = struct{}{};
\* b.subCount++; go func() {...}(); return sub` and the deferred Unlock.
Subscribe_Register(i) ==
    /\ Running
    /\ spc[i] = "register"
    /\ chan' = [chan EXCEPT ![i] = MakeChan(bufferSize)]
    /\ subs' = subs \cup {i}
    /\ subCount' = subCount + 1
    /\ wpc' = [wpc EXCEPT ![i] = "wait"]
    /\ mu' = Unlocked
    /\ spc' = [spc EXCEPT ![i] = "returned"]
    /\ UNCHANGED <<done, cancelled, ppc, pev, todo, sdpc, panicked, pubLeft,
                   histVars, appVars>>

\* ------------------------------------------------- the watcher goroutine

\* `<-ctx.Done()` has returned and `b.mu.Lock()` is acquired.
Watcher_Lock(i) ==
    /\ Running
    /\ wpc[i] = "wait"
    /\ cancelled[i]
    /\ CanLock
    /\ mu' = Locked
    /\ wpc' = [wpc EXCEPT ![i] = "check"]
    /\ UNCHANGED <<done, subs, subCount, chan, cancelled, spc, ppc, pev, todo,
                   sdpc, panicked, pubLeft, histVars, appVars>>

\* Mutant of WatcherBacksOff: the watcher does not look at b.done.
WatcherNeverBacksOff == FALSE

\* `select { case <-b.done: return; default: }`: the read of b.done.
WatcherBacksOff == done

Watcher_Check(i) ==
    /\ Running
    /\ wpc[i] = "check"
    /\ IF WatcherBacksOff
       THEN /\ mu' = Unlocked
            /\ wpc' = [wpc EXCEPT ![i] = "exit"]
       ELSE /\ wpc' = [wpc EXCEPT ![i] = "cleanup"]
            /\ UNCHANGED mu
    /\ UNCHANGED <<done, subs, subCount, chan, cancelled, spc, ppc, pev, todo,
                   sdpc, panicked, pubLeft, histVars, appVars>>

\* `if _, ok := b.subs[sub]; ok`
WatcherOwns(i) == i \in subs

\* `if ... { delete(b.subs, sub); close(sub); b.subCount-- }` and the
\* deferred Unlock.
Watcher_Cleanup(i) ==
    /\ Running
    /\ wpc[i] = "cleanup"
    /\ IF WatcherOwns(i)
       THEN IF chan[i].closed
            THEN /\ panicked' = "close of closed channel: sub"
                 /\ UNCHANGED <<subs, subCount, chan, mu, wpc, closes, closedBy,
                                removedAt>>
            ELSE /\ subs' = Unregister(subs, i)
                 /\ chan' = [chan EXCEPT ![i] = CloseChan(@)]
                 /\ subCount' = subCount - 1
                 /\ closes' = [closes EXCEPT ![i] = @ + 1]
                 /\ closedBy' = [closedBy EXCEPT ![i] = "watcher"]
                 /\ removedAt' = [removedAt EXCEPT ![i] = nextId]
                 /\ mu' = Unlocked
                 /\ wpc' = [wpc EXCEPT ![i] = "exit"]
                 /\ UNCHANGED panicked
       ELSE /\ mu' = Unlocked
            /\ wpc' = [wpc EXCEPT ![i] = "exit"]
            /\ UNCHANGED <<subs, subCount, chan, closes, closedBy, removedAt,
                           panicked>>
    /\ UNCHANGED <<done, cancelled, spc, ppc, pev, todo, sdpc, pubLeft, nextId,
                   snap, prior, received, eos, active, channelBufferSize, subAt, appVars>>

\* The owner of slot i's scope cancels it (before or after Subscribe).
Cancel(i) ==
    /\ Running
    /\ i \in active.slots
    /\ ~cancelled[i]
    /\ cancelled' = [cancelled EXCEPT ![i] = TRUE]
    /\ UNCHANGED <<brokerVars, chan, spc, wpc, ppc, pev, todo, sdpc, panicked,
                   pubLeft, histVars, appVars>>

\* ------------------------------------------------------ GetSubscriberCount

\* `b.mu.RLock(); defer b.mu.RUnlock(); return b.subCount`: the call changes
\* no state of the broker once it has returned; it returns GetSubscriberCount
\* in every state in which CanObserve holds (RLock can be taken).
CanObserve == Running /\ CanRLock
GetSubscriberCount == subCount

\* ----------------------------------------------------------------- Publish

\* The Publish calls that have returned (calls are numbered by payload).
InCall == {pev[p].payload : p \in {q \in Pubs : ppc[q] # "idle"}}
Returned == (1..(nextId - 1)) \ InCall

\* Publish returns: the caller is idle again.
PublishReturn(p) ==
    /\ ppc' = [ppc EXCEPT ![p] = "idle"]
    /\ pev' = [pev EXCEPT ![p] = NoCall]

\* b.Publish(t, payload): the call is numbered (its payload), `b.mu.RLock()`.
Publish_RLock(p) ==
    /\ Running
    /\ ppc[p] = "idle"
    /\ pubLeft[p] > 0
    /\ CanRLock
    /\ pev' = [pev EXCEPT ![p] = [t |-> EventTypeOf(nextId), payload |-> nextId]]
    /\ mu' = RLocked
    /\ ppc' = [ppc EXCEPT ![p] = "snapshot"]
    /\ pubLeft' = [pubLeft EXCEPT ![p] = @ - 1]
    /\ nextId' = nextId + 1
    /\ prior' = [prior EXCEPT ![nextId] = Returned]
    /\ snap' = [snap EXCEPT ![p] = {}]
    /\ UNCHANGED <<done, subs, subCount, chan, cancelled, spc, wpc, todo, sdpc,
                   panicked, active, channelBufferSize, subAt, appVars,
                   removedAt, received, eos, closes, closedBy>>

\* Mutant of PublishSeesDone: Publish does not look at b.done.
PublishIgnoresDone == FALSE

\* `select { case <-b.done: ... }` under the read lock.
PublishSeesDone == done

\* Mutant of Snapshot: every channel Subscribe ever registered is copied,
\* removed or not.
SnapshotStale == {i \in Subs : chan[i].alloc /\ chan[i].cap > 0}

\* `for sub := range b.subs { subscribers = append(subscribers, sub) }`
Snapshot == subs

\* The read of b.done, the copy of b.subs, `b.mu.RUnlock()`; the call returns
\* here when the broker is shut down or the copy is empty.
Publish_Snapshot(p) ==
    /\ Running
    /\ ppc[p] = "snapshot"
    /\ mu' = RUnlocked
    /\ IF PublishSeesDone \/ Snapshot = {}
       THEN /\ PublishReturn(p)
            /\ UNCHANGED <<todo, snap>>
       ELSE /\ todo' = [todo EXCEPT ![p] = Snapshot]
            /\ snap' = [snap EXCEPT ![p] = Snapshot]
            /\ ppc' = [ppc EXCEPT ![p] = "send"]
            /\ UNCHANGED pev
    /\ UNCHANGED <<done, subs, subCount, chan, cancelled, spc, wpc, sdpc,
                   panicked, pubLeft, active, channelBufferSize, subAt, appVars,
                   removedAt, nextId, prior, received, eos,
                   closes, closedBy>>

\* Mutant of Publish_Send: a plain `sub <- event`, which waits for room.
Publish_SendBlocking(p) ==
    /\ Running
    /\ ppc[p] = "send"
    /\ \E s \in todo[p] :
          /\ SendOutcome(chan[s]) = "sent"
          /\ chan' = [chan EXCEPT ![s] =
                          ChanSend(@, MakeEvent(pev[p].t, pev[p].payload))]
          /\ todo' = [todo EXCEPT ![p] = @ \ {s}]
          /\ IF todo[p] = {s}
             THEN PublishReturn(p)
             ELSE UNCHANGED <<ppc, pev>>
    /\ UNCHANGED <<brokerVars, cancelled, spc, wpc, sdpc, panicked, pubLeft,
                   active, channelBufferSize, subAt, appVars,
                   removedAt, nextId, snap, prior, received, eos, closes, closedBy>>

\* Mutant of Publish_Send: a subscriber whose buffer is full is unsubscribed.
Publish_SendEvictsSlow(p) ==
    /\ Running
    /\ ppc[p] = "send"
    /\ \E s \in todo[p] :
          LET outcome == SendOutcome(chan[s]) IN
          IF outcome = "panic"
          THEN /\ panicked' = "send on closed channel"
               /\ UNCHANGED <<chan, todo, ppc, pev, subs, subCount>>
          ELSE /\ chan' = [chan EXCEPT ![s] =
                              ChanAfterSelect(@, MakeEvent(pev[p].t, pev[p].payload))]
               /\ todo' = [todo EXCEPT ![p] = @ \ {s}]
               /\ IF todo[p] = {s}
                  THEN PublishReturn(p)
                  ELSE UNCHANGED <<ppc, pev>>
               /\ IF outcome = "dropped" /\ s \in subs
                  THEN subs' = subs \ {s} /\ subCount' = subCount - 1
                  ELSE UNCHANGED <<subs, subCount>>
               /\ UNCHANGED panicked
    /\ UNCHANGED <<done, mu, cancelled, spc, wpc, sdpc, pubLeft, histVars, appVars>>

\* One iteration of `for _, sub := range subscribers { select { case sub <-
\* event: default: } }`; after the last one the call returns.  The snapshot's
\* order is the map's iteration order, which Go leaves unspecified.
Publish_Send(p) ==
    /\ Running
    /\ ppc[p] = "send"
    /\ \E s \in todo[p] :
          LET outcome == SendOutcome(chan[s]) IN
          IF outcome = "panic"
          THEN /\ panicked' = "send on closed channel"
               /\ UNCHANGED <<chan, todo, ppc, pev>>
          ELSE /\ chan' = [chan EXCEPT ![s] =
                              ChanAfterSelect(@, MakeEvent(pev[p].t, pev[p].payload))]
               /\ todo' = [todo EXCEPT ![p] = @ \ {s}]
               /\ IF todo[p] = {s}
                  THEN PublishReturn(p)
                  ELSE UNCHANGED <<ppc, pev>>
               /\ UNCHANGED panicked
    /\ UNCHANGED <<brokerVars, cancelled, spc, wpc, sdpc, pubLeft, active,
                   channelBufferSize, subAt, appVars, removedAt,
                   nextId, snap, prior, received, eos, closes, closedBy>>

\* --------------------------------------------------------------- consumers

\* The consumer of slot i receives from the channel Subscribe returned:
\* the oldest buffered event, or the closed mark of a closed, drained channel.
\* On an open, empty channel the receive blocks.
Receive(i) ==
    /\ Running
    /\ spc[i] = "returned"
    /\ ~eos[i]
    /\ IF chan[i].buf # <<>>
       THEN /\ received' = [received EXCEPT ![i] = Append(@, Head(chan[i].buf))]
            /\ chan' = [chan EXCEPT ![i].buf = Tail(@)]
            /\ UNCHANGED eos
       ELSE /\ chan[i].closed
            /\ eos' = [eos EXCEPT ![i] = TRUE]
            /\ UNCHANGED <<chan, received>>
    /\ UNCHANGED <<brokerVars, cancelled, spc, wpc, ppc, pev, todo, sdpc,
                   panicked, pubLeft, active, channelBufferSize, subAt, appVars,
                   removedAt, nextId, snap, prior, closes,
                   closedBy>>

\* ------------------------------------------------------------ specification

ShutdownStep(c) ==
    \/ Shutdown_CloseDone(c)
    \/ Shutdown_Lock(c)
    \/ Shutdown_Sweep(c)
    \/ Shutdown_Finish(c)

SubscribeStep(i) ==
    \/ Subscribe_Check(i)
    \/ Subscribe_Register(i)

WatcherStep(i) ==
    \/ Watcher_Lock(i)
    \/ Watcher_Check(i)
    \/ Watcher_Cleanup(i)

PublishStep(p) ==
    \/ Publish_Snapshot(p)
    \/ Publish_Send(p)

Next ==
    \/ \E c \in Closers : Shutdown_Check(c)
    \/ \E c \in Closers : Shutdown_CloseDone(c)
    \/ \E c \in Closers : Shutdown_Lock(c)
    \/ \E c \in Closers : Shutdown_Sweep(c)
    \/ \E c \in Closers : Shutdown_Finish(c)
    \/ \E i \in Subs : Subscribe_Lock(i)
    \/ \E i \in Subs : Subscribe_Check(i)
    \/ \E i \in Subs : Subscribe_Register(i)
    \/ \E i \in Subs : Watcher_Lock(i)
    \/ \E i \in Subs : Watcher_Check(i)
    \/ \E i \in Subs : Watcher_Cleanup(i)
    \/ \E i \in Subs : Cancel(i)
    \/ \E p \in Pubs : Publish_RLock(p)
    \/ \E p \in Pubs : Publish_Snapshot(p)
    \/ \E p \in Pubs : Publish_Send(p)
    \/ \E i \in Subs : Receive(i)

Spec == Init /\ [][Next]_vars

\* Two producer goroutines whose Publish calls overlap (p1 makes two calls in
\* sequence, p2 one), one Shutdown caller, MaxSubs subscriptions.
InitPubs == Setup(bufferSize, [p \in Pubs |-> IF p = "p1" THEN 2 ELSE 1],
                  [closers |-> {"c1"}, slots |-> Subs])

SpecPubs == InitPubs /\ [][Next]_vars

\* Brokers built by NewBrokerWithOptions(capacity, maxEvents) with a capacity
\* other than the default: one producer making OptionsPublish calls, one
\* Shutdown caller, MaxSubs subscriptions.
OptionCapacities == {bufferSize - 1, bufferSize + 1}
OptionsPublish == bufferSize + 1

InitOptions ==
    \E capacity \in OptionCapacities :
        Setup(capacity, [p \in Pubs |-> IF p = "p1" THEN OptionsPublish ELSE 0],
              [closers |-> {"c1"}, slots |-> Subs])

SpecOptions == InitOptions /\ [][Next]_vars

\* One Publish call, two goroutines calling Shutdown, MaxSubs subscriptions,
\* under the scheduling Go guarantees: a goroutine that can run does run
\* (weak fairness of every step inside a call and of the watchers), and a
\* goroutine blocked in Lock gets the lock when it is released again and
\* again (strong fairness of the Lock steps: sync.RWMutex hands the lock to
\* a waiting writer).  Whether and when the callers call Publish, Subscribe,
\* Shutdown or cancel, and whether a consumer receives, is left open.
InitLive == Setup(bufferSize, [p \in Pubs |-> IF p = "p1" THEN 1 ELSE 0],
                  [closers |-> Closers, slots |-> Subs])

Fairness ==
    /\ \A c \in Closers :
          /\ WF_vars(Shutdown_CloseDone(c) \/ Shutdown_Sweep(c) \/ Shutdown_Finish(c))
          /\ SF_vars(Shutdown_Lock(c))
    /\ \A i \in Subs :
          /\ WF_vars(SubscribeStep(i))
          /\ SF_vars(Watcher_Lock(i))
          /\ WF_vars(Watcher_Check(i) \/ Watcher_Cleanup(i))
    /\ \A p \in Pubs : WF_vars(PublishStep(p))

FairSpec == InitLive /\ [][Next]_vars /\ Fairness

\* --------------------------------------- the chat model and main (the UI)

\* Every variable of the broker and of its callers' goroutines.
pubsubVars == <<brokerVars, chan, cancelled, spc, wpc, ppc, pev, todo, sdpc,
                panicked, pubLeft, histVars>>

\* `sub := runtime.Broker().Subscribe(ctx)` in InitialModel: the chat
\* model's subscription, with ctx = context.Background().
UISub == 1

\* main: `program.Run()` after `chat.InitialModel(runtime)`.  Model.Init
\* issues the first waitForAgentMessage command.
Program_Run ==
    /\ Running
    /\ uiState = "new"
    /\ spc[UISub] = "returned"
    /\ uiState' = "running"
    /\ uiCmd' = "waiting"
    /\ UNCHANGED <<pubsubVars, uiMsg, messages, runVars, storeVars>>

\* The command's goroutine: `event := <-m.sub; return event`.  The receive
\* waits on an open, empty channel; on a closed, drained channel it returns
\* the zero Event at once (the second result of the receive is not read).
WaitForAgentMessage ==
    /\ Running
    /\ uiCmd = "waiting"
    /\ IF chan[UISub].buf # <<>>
       THEN /\ uiMsg' = Head(chan[UISub].buf)
            /\ chan' = [chan EXCEPT ![UISub].buf = Tail(@)]
            /\ received' = [received EXCEPT ![UISub] =
                                Append(@, Head(chan[UISub].buf))]
       ELSE /\ chan[UISub].closed
            /\ uiMsg' = ZeroEvent
            /\ UNCHANGED <<chan, received>>
    /\ uiCmd' = "returned"
    /\ UNCHANGED <<brokerVars, cancelled, spc, wpc, ppc, pev, todo, sdpc,
                   panicked, pubLeft, active, channelBufferSize, nextId, snap,
                   prior, eos, closes, closedBy, removedAt, subAt,
                   uiState, messages, runVars, storeVars>>

\* ListModel.Update, case pubsub.Event: `if msg.Type != pubsub.FinishedEvent
\* { m.messages = append(m.messages, msg.Payload) }`.
ListModel_Update(list, msg) ==
    IF msg.Type # "finished" THEN Append(list, msg.Payload) ELSE list

\* Model.Update, case pubsub.Event: the program's event loop hands the
\* returned event to Update, which issues the next waitForAgentMessage and
\* passes the event on to the list.
Model_Update ==
    /\ Running
    /\ uiState = "running"
    /\ uiCmd = "returned"
    /\ uiCmd' = "waiting"
    /\ messages' = ListModel_Update(messages, uiMsg)
    /\ uiMsg' = NoEvent
    /\ UNCHANGED <<pubsubVars, uiState, runVars, storeVars>>

\* Model.Update, case tea.KeyMsg (Ctrl+C, Esc): `return m, tea.Quit`; the
\* event loop ends and program.Run() returns.
Program_Quit ==
    /\ Running
    /\ uiState = "running"
    /\ uiState' = "quit"
    /\ UNCHANGED <<pubsubVars, uiCmd, uiMsg, messages, runVars, storeVars>>

\* An event a command returns after the event loop has ended goes nowhere.
Program_Drop ==
    /\ Running
    /\ uiState = "quit"
    /\ uiCmd = "returned"
    /\ uiCmd' = "none"
    /\ uiMsg' = NoEvent
    /\ UNCHANGED <<pubsubVars, uiState, messages, runVars, storeVars>>

\* Model.Update, case EditorSubmitMsg: `go func() { _ = m.runtime.Run(..) }()`.
\* The Publish calls of the Run goroutines begin once the program runs, and
\* may go on after it has quit.
Submit_Publish(p) ==
    /\ uiState # "new"
    /\ Publish_RLock(p)

\* Mutant of MainMayClose: Runtime.Close is called at any time.
MainClosesAnytime == TRUE

\* main: `defer runtime.Close()` runs when main returns, after program.Run()
\* has returned without error.
MainMayClose == uiState = "quit"

\* Runtime.Close: `r.cancelFunc(); r.broker.Shutdown()`, once.  The context
\* it cancels is the runtime's, not the scope of the chat model's
\* subscription.
Main_Close ==
    /\ MainMayClose
    /\ sdpc["c1"] = "idle"
    /\ Shutdown_Check("c1")

UINext ==
    \/ \E i \in Subs : Subscribe_Lock(i)
    \/ \E i \in Subs : Subscribe_Check(i)
    \/ \E i \in Subs : Subscribe_Register(i)
    \/ Program_Run
    \/ WaitForAgentMessage
    \/ Model_Update
    \/ Program_Quit
    \/ Program_Drop
    \/ \E p \in Pubs : Submit_Publish(p)
    \/ \E p \in Pubs : Publish_Snapshot(p)
    \/ \E p \in Pubs : Publish_Send(p)
    \/ Main_Close
    \/ \E c \in Closers : Shutdown_CloseDone(c)
    \/ \E c \in Closers : Shutdown_Lock(c)
    \/ \E c \in Closers : Shutdown_Sweep(c)
    \/ \E c \in Closers : Shutdown_Finish(c)

\* The program of main.go: one broker, the chat model's subscription, the
\* Publish calls of one Run (Created, Updated, Updated, Finished), and
\* main's deferred Runtime.Close.
InitUI == Setup(bufferSize, [p \in Pubs |-> IF p = "p1" THEN MaxPublish ELSE 0],
                [closers |-> {"c1"}, slots |-> {UISub}])

UISpec == InitUI /\ [][UINext]_vars

\* ------------------------------------------------------------- Runtime.Run

\* Number of agent events the iterator of one Run call returns at most.
MaxAgentEvents == 3

\* What handleAgentEvent tells apart in an *adk.AgentEvent: no Output, an
\* Output without MessageOutput, a MessageOutput whose GetMessage fails, a
\* MessageOutput with its message.
AgentEventKinds == {"noOutput", "noMessageOutput", "badMessage", "message"}

\* The agent events that carry an output message.
HasMessageOutput(k) == k \in {"badMessage", "message"}

\* Mutant of handleAgentEvent: every agent event is published.
handleAgentEventAlways(k, n) ==
    <<[Type |-> "updated", Payload |-> [what |-> k, event |-> n]]>>

\* handleAgentEvent on the n-th event, of kind k: the Publish calls it makes.
\* It returns early without output; it publishes an Updated event with an
\* error text when GetMessage fails, else an Updated event with the message
\* (a failure to store the message is only logged).
handleAgentEvent(k, n) ==
    IF k = "noOutput" \/ k = "noMessageOutput" THEN <<>>
    ELSE IF k = "badMessage"
         THEN <<[Type |-> "updated", Payload |-> [what |-> "error", event |-> n]]>>
         ELSE <<[Type |-> "updated", Payload |-> [what |-> "message", event |-> n]]>>

\* Run(userPrompt): `r.store.Add(r.ctx, userMsg)`; on an error Run returns it.
Run_Store(r) ==
    /\ rpc[r] = "idle"
    /\ \E ok \in BOOLEAN :
          rpc' = [rpc EXCEPT ![r] = IF ok THEN "stored" ELSE "failedStore"]
    /\ UNCHANGED <<pubsubVars, uiVars, revents, rlog, storeVars>>

\* `r.broker.Publish(pubsub.CreatedEvent, userMsg)`
Run_PublishCreated(r) ==
    /\ rpc[r] = "stored"
    /\ rlog' = [rlog EXCEPT ![r] =
                   Append(@, [Type |-> "created",
                              Payload |-> [what |-> "user", event |-> 0]])]
    /\ rpc' = [rpc EXCEPT ![r] = "list"]
    /\ UNCHANGED <<pubsubVars, uiVars, revents, storeVars>>

\* `history, err := r.store.List(r.ctx)`; on an error Run returns it; else
\* `iter := r.runner.Run(r.ctx, history)`.
Run_List(r) ==
    /\ rpc[r] = "list"
    /\ \E ok \in BOOLEAN :
          rpc' = [rpc EXCEPT ![r] = IF ok THEN "iter" ELSE "failedList"]
    /\ UNCHANGED <<pubsubVars, uiVars, revents, rlog, storeVars>>

\* `event, ok := iter.Next()` with ok, and `r.handleAgentEvent(event)`.
Run_Event(r) ==
    /\ rpc[r] = "iter"
    /\ Len(revents[r]) < MaxAgentEvents
    /\ \E k \in AgentEventKinds :
          /\ revents' = [revents EXCEPT ![r] = Append(@, k)]
          /\ rlog' = [rlog EXCEPT ![r] =
                         @ \o handleAgentEvent(k, Len(revents[r]) + 1)]
    /\ UNCHANGED <<pubsubVars, uiVars, rpc, storeVars>>

\* `iter.Next()` without ok: the loop ends.
Run_EndOfEvents(r) ==
    /\ rpc[r] = "iter"
    /\ rpc' = [rpc EXCEPT ![r] = "finish"]
    /\ UNCHANGED <<pubsubVars, uiVars, revents, rlog, storeVars>>

\* `r.broker.Publish(pubsub.FinishedEvent, nil); return nil`
Run_PublishFinished(r) ==
    /\ rpc[r] = "finish"
    /\ rlog' = [rlog EXCEPT ![r] =
                   Append(@, [Type |-> "finished",
                              Payload |-> [what |-> "nil", event |-> 0]])]
    /\ rpc' = [rpc EXCEPT ![r] = "returned"]
    /\ UNCHANGED <<pubsubVars, uiVars, revents, storeVars>>

RunNext ==
    \/ \E r \in Runs : Run_Store(r)
    \/ \E r \in Runs : Run_PublishCreated(r)
    \/ \E r \in Runs : Run_List(r)
    \/ \E r \in Runs : Run_Event(r)
    \/ \E r \in Runs : Run_EndOfEvents(r)
    \/ \E r \in Runs : Run_PublishFinished(r)

\* Two Run calls in two goroutines (the chat model starts one goroutine per
\* submitted prompt), each with any sequence of at most MaxAgentEvents agent
\* events.
RunSpec == Init /\ [][RunNext]_vars

\* ------------------------------------------------------------ MemoryStore

\* s.maxMessages.  NewMemoryStore sets 20; the model scales it down.
maxMessages == 2

\* s.maxToolResponse.  NewMemoryStore sets 2000; the model scales it down.
maxToolResponse == 6

\* Number of Add calls of a run.
MaxAdds == 4

\* The cutoffs compressToolResponse can choose: maxToolResponse, or the end
\* of a break point that starts behind maxToolResponse/2.
Cutoffs == (maxToolResponse \div 2 + 2)..maxToolResponse

\* The messages passed to Add: role, length of the content, and, for the
\* content, the cutoff the break-point search of compressToolResponse finds.
\* The cutoff matters only for a tool response longer than maxToolResponse.
MessageKinds ==
    {k \in [Role : {"user", "tool"},
            len : {maxToolResponse, maxToolResponse + 1},
            cut : Cutoffs] :
        (k.Role = "user" \/ k.len <= maxToolResponse) => k.cut = maxToolResponse}

\* compressToolResponse(msg): a content of at most maxToolResponse is returned
\* as it is; a longer one is replaced by a new message with the same role,
\* the first `cut` characters and the truncation note.
compressToolResponse(msg) ==
    IF msg.len <= maxToolResponse THEN msg
    ELSE [msg EXCEPT !.len = msg.cut, !.truncated = TRUE]

\* `if msg.Role == schema.Tool { msg = s.compressToolResponse(msg) }`
Stored(msg) == IF msg.Role = "tool" THEN compressToolResponse(msg) ELSE msg

\* Mutant of Window: the oldest maxMessages messages are kept.
WindowKeepsOldest(q) ==
    IF Len(q) > maxMessages THEN SubSeq(q, 1, maxMessages) ELSE q

\* `if len(s.msgs) > s.maxMessages { s.msgs = s.msgs[len(s.msgs)-s.maxMessages:] }`
Window(q) ==
    IF Len(q) > maxMessages
    THEN SubSeq(q, Len(q) - maxMessages + 1, Len(q))
    ELSE q

\* A goroutine calls s.Add(ctx, msg) with any message.
Add_Call(a) ==
    /\ addpc[a] = "idle"
    /\ nextMsg <= MaxAdds
    /\ \E k \in MessageKinds :
          addmsg' = [addmsg EXCEPT ![a] =
                        [id |-> nextMsg, Role |-> k.Role, len |-> k.len,
                         cut |-> k.cut, truncated |-> FALSE]]
    /\ nextMsg' = nextMsg + 1
    /\ addpc' = [addpc EXCEPT ![a] = "lock"]
    /\ UNCHANGED <<pubsubVars, uiVars, runVars, smu, smsgs, added, listpc,
                   listed>>

\* `s.mu.Lock()`
Add_Lock(a) ==
    /\ addpc[a] = "lock"
    /\ ~smu.writer /\ smu.readers = 0
    /\ smu' = [smu EXCEPT !.writer = TRUE]
    /\ addpc' = [addpc EXCEPT ![a] = "locked"]
    /\ UNCHANGED <<pubsubVars, uiVars, runVars, smsgs, addmsg, nextMsg, added,
                   listpc, listed>>

\* The body of Add under the lock: compress a tool response, append, keep
\* the window, the deferred Unlock, `return nil`.
Add_Body(a) ==
    /\ addpc[a] = "locked"
    /\ smsgs' = Window(Append(smsgs, Stored(addmsg[a])))
    /\ added' = Append(added, addmsg[a])
    /\ smu' = [smu EXCEPT !.writer = FALSE]
    /\ addpc' = [addpc EXCEPT ![a] = "idle"]
    /\ addmsg' = [addmsg EXCEPT ![a] = NoMessage]
    /\ UNCHANGED <<pubsubVars, uiVars, runVars, nextMsg, listpc, listed>>

\* s.List(ctx): `s.mu.RLock()`
List_RLock(l) ==
    /\ listpc[l] = "idle"
    /\ ~smu.writer
    /\ smu' = [smu EXCEPT !.readers = @ + 1]
    /\ listpc' = [listpc EXCEPT ![l] = "locked"]
    /\ UNCHANGED <<pubsubVars, uiVars, runVars, smsgs, addpc, addmsg, nextMsg,
                   added, listed>>

\* `result := make([]adk.Message, len(s.msgs)); copy(result, s.msgs)`, the
\* deferred RUnlock, `return result, nil`.
List_Copy(l) ==
    /\ listpc[l] = "locked"
    /\ listed' = [listed EXCEPT ![l] = smsgs]
    /\ smu' = [smu EXCEPT !.readers = @ - 1]
    /\ listpc' = [listpc EXCEPT ![l] = "idle"]
    /\ UNCHANGED <<pubsubVars, uiVars, runVars, smsgs, addpc, addmsg, nextMsg,
                   added>>

StoreNext ==
    \/ \E a \in Adders : Add_Call(a)
    \/ \E a \in Adders : Add_Lock(a)
    \/ \E a \in Adders : Add_Body(a)
    \/ \E l \in Listers : List_RLock(l)
    \/ \E l \in Listers : List_Copy(l)

\* Two goroutines making MaxAdds Add calls between them and one goroutine
\* calling List, on the store NewMemoryStore returns.
StoreSpec == Init /\ [][StoreNext]_vars

\* ------------------------------------------------------------------ claims

\* What a consumer of slot i has seen and can still see, oldest first: the
\* events it received, then the events buffered in its channel.
Seen(i) == received[i] \o chan[i].buf

\* The Shutdown call that closed b.done has swept and returned.
ShutdownComplete ==
    /\ done
    /\ \A c \in Closers : sdpc[c] \in {"idle", "returned"}

\* C1: Under every interleaving of Publish with scope cancellation and with
\* Shutdown, Publish never sends to a channel that is already closed: the
\* program never ends in the run-time panic "send on closed channel".
C1_NoSendOnClosedChannel == panicked # "send on closed channel"

\* C2: Shutdown calls, in sequence or concurrent, never fault: no call runs
\* close(b.done) on the already closed b.done.
C2_ShutdownNeverFaults == panicked # "close of closed channel: b.done"

\* C3: Every subscription channel is closed at most once, no close of a
\* subscription channel ever faults, and once a subscription's scope is
\* cancelled, its watcher has run to its end and the broker's shutdown is
\* complete, the channel has been closed exactly once, by the watcher or by
\* Shutdown.
C3_ClosedExactlyOnce ==
    /\ panicked # "close of closed channel: sub"
    /\ \A i \in Subs :
          /\ closes[i] <= 1
          /\ (closes[i] = 1) <=> chan[i].closed
          /\ (wpc[i] = "exit" /\ ShutdownComplete) =>
                 /\ closes[i] = 1
                 /\ closedBy[i] \in {"watcher", "shutdown"}

\* C3 witness: both orders have happened in one run: one channel was closed
\* by its watcher before the shutdown, the other by Shutdown before its
\* watcher ran, and both watchers and the shutdown are over.
C3_Witness ==
    /\ ShutdownComplete
    /\ \E i, j \in Subs :
          /\ wpc[i] = "exit" /\ closedBy[i] = "watcher" /\ closes[i] = 1
          /\ wpc[j] = "exit" /\ closedBy[j] = "shutdown" /\ closes[j] = 1

\* Payloads (call numbers) of a sequence of events.
Ids(q) == [n \in 1..Len(q) |-> q[n].Payload]

\* The step is the iteration of Publish caller p's send loop on slot s.
SendStep(p, s) ==
    /\ ppc[p] = "send"
    /\ s \in todo[p]
    /\ todo'[p] = todo[p] \ {s}

\* C4: Publish never waits for a consumer.  In every reachable state of a
\* running program, a Publish call that holds the read lock can take its
\* next step (check, snapshot, unlock), and a call in its send loop can take
\* its next iteration whatever the channels' buffers hold, without a fault
\* when the channels left in its snapshot are open; every iteration takes
\* one subscriber off the snapshot, so a call is over after as many
\* iterations as the snapshot has channels.
C4_PublishNeverWaits ==
    /\ [](\A p \in Pubs :
            /\ (Running /\ ppc[p] = "snapshot") => ENABLED Publish_Snapshot(p)
            /\ (Running /\ ppc[p] = "send") =>
                   /\ todo[p] # {}
                   /\ ENABLED Publish_Send(p)
                   /\ (\A s \in todo[p] : ~chan[s].closed) =>
                          ENABLED (Publish_Send(p) /\ panicked' = panicked))
    /\ [][\A p \in Pubs :
            (ppc[p] = "send" /\ <<ppc[p], todo[p]>>' # <<ppc[p], todo[p]>>)
            => /\ \E s \in todo[p] : todo'[p] = todo[p] \ {s}
               /\ ppc'[p] = IF todo'[p] = {} THEN "idle" ELSE "send"]_vars

\* C4 witness: a subscriber that was registered before the first call and
\* never received anything holds the first bufferSize events in its full
\* buffer, and every one of the MaxPublish (> bufferSize) calls has returned.
C4_Witness ==
    /\ \A p \in Pubs : ppc[p] = "idle"
    /\ Returned = 1..MaxPublish
    /\ MaxPublish > bufferSize
    /\ \E i \in Subs :
          /\ i \in subs /\ ~chan[i].closed
          /\ received[i] = <<>>
          /\ Ids(chan[i].buf) = [n \in 1..bufferSize |-> n]

\* C5: An iteration of Publish that finds the subscriber's buffer full
\* changes no channel at all (that subscriber keeps its buffered events, the
\* new event is the one discarded) and does not end the loop: the call goes
\* on to the subscribers left in its snapshot, and every iteration on an
\* open channel with room appends the call's event to that channel and
\* leaves every other channel as it was.
C5_DropOnlyForThatSubscriber ==
    [][\A p \in Pubs, s \in Subs :
         /\ (SendStep(p, s) /\ SendOutcome(chan[s]) = "dropped") =>
                /\ chan' = chan
                /\ received' = received
                /\ panicked' = panicked
                /\ todo[p] # {s} => (ppc'[p] = "send" /\ pev'[p] = pev[p])
         /\ (SendStep(p, s) /\ SendOutcome(chan[s]) = "sent") =>
                /\ chan'[s].buf = Append(chan[s].buf, [Type |-> pev[p].t, Payload |-> pev[p].payload])
                /\ \A o \in Subs \ {s} : chan'[o] = chan[o]]_vars

\* C5 witness: the last call had both subscribers in its snapshot and has
\* returned; slot 1, which never received, is still full of older events
\* and lacks the call's event; slot 2 has it.
C5_Witness ==
    /\ ppc["p1"] = "idle" /\ snap["p1"] = {1, 2} /\ nextId > 1
    /\ received[1] = <<>> /\ Len(chan[1].buf) = bufferSize
    /\ \A n \in 1..Len(chan[1].buf) : chan[1].buf[n].Payload < nextId - 1
    /\ \E n \in 1..Len(Seen(2)) : Seen(2)[n].Payload = nextId - 1

\* C6: On a running broker, Publish(t, v) copies exactly the active set
\* (b.subs) as its snapshot, ranges over every channel of the snapshot
\* exactly once before it returns, and on every open channel with room
\* appends exactly one event, [Type t, Payload v], to the tail of the buffer.
C6_PublishDelivers ==
    [][\A p \in Pubs :
         /\ (ppc[p] = "snapshot" /\ ppc'[p] = "send") =>
                (~done /\ snap'[p] = subs /\ todo'[p] = subs)
         /\ (ppc[p] = "snapshot" /\ ppc'[p] = "idle") => (done \/ subs = {})
         /\ (ppc[p] = "send" /\ ppc'[p] = "idle") => todo'[p] = {}
         /\ (ppc[p] = "send" /\ ppc'[p] = "send") => snap'[p] = snap[p]
         /\ ppc[p] = "send" => todo[p] \subseteq snap[p]
         /\ \A s \in Subs :
               (SendStep(p, s) /\ ~chan[s].closed /\ Len(chan[s].buf) < chan[s].cap) =>
                   /\ Len(chan'[s].buf) = Len(chan[s].buf) + 1
                   /\ SubSeq(chan'[s].buf, 1, Len(chan[s].buf)) = chan[s].buf
                   /\ chan'[s].buf[Len(chan'[s].buf)] =
                          [Type |-> pev[p].t, Payload |-> pev[p].payload]
                   /\ chan'[s].cap = chan[s].cap]_vars

\* C6 witness: fan-out and recovery after a drop.  With both subscribers
\* registered, slot 2 has call 1's event, tagged "created"; slot 1 has
\* calls 1 and 2, missed call 3 on a full buffer, and has call 4's event,
\* tagged "finished", after its consumer made room.
C6_Witness ==
    /\ MaxPublish = 4 /\ bufferSize = 2
    /\ Ids(Seen(1)) = <<1, 2, 4>>
    /\ Seen(1)[3] = [Type |-> "finished", Payload |-> 4]
    /\ Len(Seen(2)) > 0
    /\ Seen(2)[1] = [Type |-> "created", Payload |-> 1]

\* C7: What a subscriber receives is, in order, a duplicate-free selection
\* of the events that were published: every event it has received or has
\* buffered is the event of a Publish call that was made, none occurs twice,
\* and no event stands behind the event of a call that was invoked only after
\* its own call had returned.
C7_PerSubscriberOrder ==
    \A i \in Subs :
       LET q == Seen(i) IN
       /\ \A n \in 1..Len(q) :
             /\ q[n].Payload \in 1..(nextId - 1)
             /\ q[n].Type = EventTypeOf(q[n].Payload)
       /\ \A m, n \in 1..Len(q) :
             m < n => /\ q[m].Payload # q[n].Payload
                      /\ q[n].Payload \notin prior[q[m].Payload]

\* C7 witness: overlapping calls 1 (of p1) and 2 (of p2) reached slot 1 as
\* 2, 1; call 3, invoked by p1 after its call 1 returned, stands behind
\* call 1; slot 2 has a gap.
C7_Witness ==
    /\ Ids(Seen(1)) = <<2, 1, 3>>
    /\ 1 \in prior[3]
    /\ 1 \notin prior[2]
    /\ Ids(Seen(2)) = <<1, 3>>

\* C8: After Subscribe(scope) on a running broker, once the scope is
\* cancelled (before or after the Subscribe) the subscription is eventually
\* removed: its channel is out of the active set and closed and the count
\* is that of the remaining subscriptions, unless the broker shuts down.
C8_CancelUnsubscribes ==
    \A i \in Subs :
       (cancelled[i] /\ i \in subs /\ ~done)
          ~> \/ i \notin subs /\ chan[i].closed /\ subCount = Cardinality(subs)
             \/ done

\* On every run in which the program does not panic, the cancelled
\* subscription is removed: C8 fails only on runs that end in a panic.
CancelUnsubscribesUnlessPanic ==
    \A i \in Subs :
       (cancelled[i] /\ i \in subs /\ ~done)
          ~> \/ i \notin subs /\ chan[i].closed /\ subCount = Cardinality(subs)
             \/ done
             \/ ~Running

\* C9: Once Shutdown has set the shutdown signal, every registered
\* subscription channel is eventually closed, scope cancelled or not.
C9_ShutdownClosesStreams ==
    \A i \in Subs : (done /\ i \in subs) ~> chan[i].closed

\* On every run in which the program does not panic, Shutdown closes every
\* registered channel: C9 fails only on runs that end in a panic.
ShutdownClosesStreamsUnlessPanic ==
    \A i \in Subs : (done /\ i \in subs) ~> (chan[i].closed \/ ~Running)

\* C10: Once the shutdown signal is set and every Shutdown call has
\* returned, the active set is empty and the count is 0, and no later step
\* (Subscribe, Publish, Shutdown, a cancellation, a watcher) changes that or
\* reopens the shutdown signal.
C10_ShutdownIsFinal ==
    /\ [](ShutdownComplete => (subs = {} /\ subCount = 0))
    /\ [][ShutdownComplete =>
            (ShutdownComplete' /\ subs' = {} /\ subCount' = 0)]_vars
    /\ [][done => done']_vars

\* C10 witness: both callers' Shutdown calls have returned, one subscription
\* was closed by the shutdown, and a Subscribe made afterwards returned a
\* closed stream.
C10_Witness ==
    /\ ShutdownComplete
    /\ \A c \in Closers : sdpc[c] = "returned"
    /\ \E i, j \in Subs :
          /\ closedBy[i] = "shutdown"
          /\ closedBy[j] = "subscribe" /\ spc[j] = "returned"

\* C11: Whenever a Shutdown call returns to its caller, also a call that
\* overlaps another Shutdown call and finds b.done closed, the active set is
\* empty (every subscription registered before the call has been removed and
\* closed) and the subscriber count is zero.
C11_ShutdownReturnsAfterSweep ==
    [][\A c \in Closers :
         (sdpc[c] # "returned" /\ sdpc'[c] = "returned")
            => /\ subs' = {}
               /\ subCount' = 0
               /\ \A i \in subs : chan'[i].closed]_vars

\* C12: No reachable state shows a half-shut-down broker to an observer: the
\* shutdown signal set (Publish drops, Subscribe returns a closed stream)
\* while a subscription is still registered and open and GetSubscriberCount,
\* which can take its read lock, returns a non-zero count.
C12_NoHalfShutdown ==
    ~(/\ done
      /\ CanObserve
      /\ GetSubscriberCount # 0
      /\ \E i \in subs : ~chan[i].closed)

\* C13: A Subscribe that finds the broker shut down returns a closed stream
\* and changes nothing else: the active set, the count, the shutdown signal
\* and every other channel are as before, no watcher is started and nothing
\* faults; such a stream stays closed and outside the active set, carries no
\* event, ever, and has no watcher.
C13_SubscribeAfterShutdown ==
    /\ [](\A i \in Subs :
            closedBy[i] = "subscribe" =>
                /\ chan[i].closed /\ closes[i] = 1
                /\ Seen(i) = <<>>
                /\ i \notin subs
                /\ wpc[i] = "none")
    /\ [][\A i \in Subs :
            (spc[i] = "check" /\ done /\ spc'[i] # "check") =>
                /\ spc'[i] = "returned"
                /\ closedBy'[i] = "subscribe"
                /\ chan'[i].closed /\ chan'[i].buf = <<>>
                /\ \A o \in Subs \ {i} : chan'[o] = chan[o]
                /\ <<done, subs, subCount, wpc, panicked>>'
                       = <<done, subs, subCount, wpc, panicked>>]_vars

\* C13 witness: after the shutdown is complete a Subscribe returned, its
\* consumer has observed end-of-stream without receiving an event, and the
\* scope has been cancelled without a watcher existing for it.
C13_Witness ==
    /\ ShutdownComplete
    /\ \E i \in Subs :
          /\ closedBy[i] = "subscribe" /\ spc[i] = "returned"
          /\ eos[i] /\ received[i] = <<>>
          /\ cancelled[i] /\ wpc[i] = "none"

\* C14: A Publish call on a shut-down broker has no effect: taking the read
\* lock changes no channel, active set, count or signal, and the call's next
\* step gives the read lock back and returns without enqueuing on any
\* channel, open or closed, and without any change to the broker's state.
C14_PublishAfterShutdown ==
    [][\A p \in Pubs :
         /\ (done /\ ppc[p] = "idle" /\ ppc'[p] # "idle") =>
                /\ ppc'[p] = "snapshot"
                /\ <<done, subs, subCount, chan, panicked>>'
                       = <<done, subs, subCount, chan, panicked>>
         /\ (done /\ ppc[p] = "snapshot" /\ ppc'[p] # "snapshot") =>
                /\ ppc'[p] = "idle"
                /\ mu' = RUnlocked
                /\ <<done, subs, subCount, chan, todo, panicked>>'
                       = <<done, subs, subCount, chan, todo, panicked>>]_vars

\* C14 witness: slot 1 is still registered and open on a broker whose
\* shutdown signal is set (the Shutdown call has not swept yet); it got the
\* event of call 1 and, with room in its buffer, nothing of call 2, which
\* was made after call 1 and has returned.
C14_Witness ==
    /\ done
    /\ \E c \in Closers : sdpc[c] = "lock"
    /\ 1 \in subs /\ ~chan[1].closed
    /\ Ids(Seen(1)) = <<1>>
    /\ Len(Seen(1)) < chan[1].cap
    /\ {1, 2} \subseteq Returned
    /\ 1 \in prior[2]

\* C15: Every channel Subscribe registers on a broker built with
\* NewBrokerWithOptions(channelBufferSize, maxEvents) has capacity exactly
\* channelBufferSize.
C15_CapacityIsTheOption ==
    \A i \in Subs :
       (chan[i].alloc /\ closedBy[i] # "subscribe")
          => chan[i].cap = channelBufferSize

\* C16: In every state in which no operation holds the broker lock for
\* writing, b.subCount, which GetSubscriberCount returns, is the number of
\* channels in the active set, and it is never negative.
C16_CountMatchesActiveSet ==
    /\ ~mu.writer => GetSubscriberCount = Cardinality(subs)
    /\ subCount >= 0

\* C16 witness: after two Subscribe calls, a cancellation that the watcher
\* cleaned up and a complete shutdown that closed the other subscription,
\* GetSubscriberCount can run and returns 0.
C16_Witness ==
    /\ ShutdownComplete
    /\ CanObserve
    /\ GetSubscriberCount = 0
    /\ \E i, j \in Subs : closedBy[i] = "watcher" /\ closedBy[j] = "shutdown"
    /\ \A i \in Subs : spc[i] = "returned"

\* C17: Once Shutdown has closed a subscription's channel, the watcher
\* goroutine of that subscription eventually terminates, whether its scope
\* is ever cancelled or not.
C17_WatcherTerminates ==
    \A i \in Subs : (closedBy[i] = "shutdown") ~> (wpc[i] = "exit")

\* The watcher is still there on runs without any panic: C17 does not fail
\* because of another fault.
WatcherTerminatesUnlessPanic ==
    \A i \in Subs : (closedBy[i] = "shutdown") ~> (wpc[i] = "exit" \/ ~Running)

\* C18: A channel leaves the active set no later than it is closed: every
\* step that closes a channel leaves it outside the active set, and in every
\* state in which no operation holds the broker lock for writing no member
\* of the active set is closed.
C18_RemovedBeforeClosed ==
    /\ [](~mu.writer => \A i \in subs : ~chan[i].closed)
    /\ [][\A i \in Subs :
            (~chan[i].closed /\ chan'[i].closed) => i \notin subs']_vars

\* C18 witness: with the lock free and the active set empty, one channel
\* was closed by its watcher and one by Shutdown, whose scope is not
\* cancelled and whose watcher still waits.
C18_Witness ==
    /\ ~mu.writer /\ mu.readers = 0
    /\ subs = {}
    /\ \E i, j \in Subs :
          /\ closedBy[i] = "watcher" /\ chan[i].closed
          /\ closedBy[j] = "shutdown" /\ chan[j].closed
          /\ ~cancelled[j] /\ wpc[j] = "wait"

\* C19: Closed is terminal.  From a state in which a channel is closed and
\* outside the active set, every step leaves it closed and outside the
\* active set, closes it no second time, and writes nothing to it: its
\* buffer is as before or lost its head to the consumer.
C19_ClosedIsTerminal ==
    [][\A i \in Subs :
         (chan[i].closed /\ i \notin subs) =>
             /\ chan'[i].closed
             /\ i \notin subs'
             /\ chan'[i].cap = chan[i].cap
             /\ <<closes[i], closedBy[i], removedAt[i]>>'
                    = <<closes[i], closedBy[i], removedAt[i]>>
             /\ \/ chan'[i].buf = chan[i].buf
                \/ /\ chan[i].buf # <<>>
                   /\ chan'[i].buf = Tail(chan[i].buf)]_vars

\* C19 witness: slot 1 was closed by its watcher; afterwards Publish calls
\* were made, the other subscription was closed by a complete shutdown and
\* the consumer of slot 1 drained it to end-of-stream; slot 1 is still
\* closed, once.
C19_Witness ==
    /\ closedBy[1] = "watcher" /\ closes[1] = 1 /\ wpc[1] = "exit"
    /\ removedAt[1] > 0 /\ removedAt[1] < nextId
    /\ received[1] # <<>> /\ eos[1]
    /\ closedBy[2] = "shutdown"
    /\ ShutdownComplete

\* C20: A Publish call that begins after a channel left the active set has
\* that channel in no snapshot: it attempts no send to it, and no event of
\* such a call is ever on that channel.
C20_NoSendAfterRemoval ==
    /\ \A p \in Pubs :
          ppc[p] = "send" =>
              /\ todo[p] \subseteq snap[p]
              /\ \A i \in snap[p] :
                    removedAt[i] = 0 \/ pev[p].payload < removedAt[i]
    /\ \A i \in Subs :
          removedAt[i] # 0 =>
              \A n \in 1..Len(Seen(i)) : Seen(i)[n].Payload < removedAt[i]

\* C20 witness: slot 1 left the active set through its watcher after call 1;
\* call 2 began afterwards, had only slot 2 in its snapshot and has
\* returned: slot 2 holds both events, slot 1 only the first.
C20_Witness ==
    /\ closedBy[1] = "watcher" /\ removedAt[1] = 2
    /\ ppc["p1"] = "idle" /\ snap["p1"] = {2} /\ nextId = 3
    /\ Ids(Seen(1)) = <<1>>
    /\ Ids(Seen(2)) = <<1, 2>>

\* C21: A watcher that runs when the shutdown signal is set terminates
\* without changing anything: taking the lock changes no channel, active
\* set or count, and its next step gives the lock back and ends the watcher
\* with every channel, the active set, the count and the signal as before.
C21_WatcherAfterShutdown ==
    [][\A i \in Subs :
         /\ (done /\ wpc[i] = "wait" /\ wpc'[i] # "wait") =>
                /\ wpc'[i] = "check"
                /\ <<done, subs, subCount, chan, closes, panicked>>'
                       = <<done, subs, subCount, chan, closes, panicked>>
         /\ (done /\ wpc[i] = "check" /\ wpc'[i] # "check") =>
                /\ wpc'[i] = "exit"
                /\ mu' = Unlocked
                /\ <<done, subs, subCount, chan, closes, panicked>>'
                       = <<done, subs, subCount, chan, closes, panicked>>]_vars

\* C21 witness: the shutdown is complete and has closed a subscription; its
\* scope was cancelled and its watcher has run to its end; the channel was
\* closed once, by Shutdown, and the active set and the count are empty.
C21_Witness ==
    /\ ShutdownComplete
    /\ subs = {} /\ subCount = 0
    /\ \E i \in Subs :
          /\ cancelled[i] /\ wpc[i] = "exit"
          /\ closedBy[i] = "shutdown" /\ closes[i] = 1
          /\ removedAt[i] > 0

\* C22: A Subscribe that finds the broker running registers: it goes on to
\* the registration, which returns a new, open, empty channel of capacity
\* bufferSize, adds exactly that channel to the active set, raises the count
\* by one, starts the watcher and leaves every other channel as it was,
\* whatever the count is relative to maxEvents.
C22_SubscribeRegisters ==
    [][\A i \in Subs :
         /\ (spc[i] = "check" /\ ~done /\ spc'[i] # "check") =>
                spc'[i] = "register"
         /\ (spc[i] = "register" /\ spc'[i] # "register") =>
                /\ spc'[i] = "returned"
                /\ chan'[i] = [alloc |-> TRUE, cap |-> bufferSize,
                               buf |-> <<>>, closed |-> FALSE]
                /\ i \notin subs
                /\ subs' = subs \cup {i}
                /\ subCount' = subCount + 1
                /\ wpc'[i] = "wait"
                /\ \A o \in Subs \ {i} : chan'[o] = chan[o]
                /\ <<done, panicked>>' = <<done, panicked>>]_vars

\* C22 witness: more subscriptions than maxEvents are registered and open
\* on a running broker.
C22_Witness ==
    /\ ~done
    /\ subCount > maxEvents
    /\ Cardinality(subs) > maxEvents
    /\ \A i \in subs : spc[i] = "returned" /\ ~chan[i].closed

\* C25: No step of a Publish call changes the membership: the active set,
\* the count and the shutdown signal are as before, no channel is made or
\* closed or changes its capacity, and a buffer that changes belongs to a
\* channel of the call's snapshot and gained the call's event at its tail.
C25_PublishKeepsMembership ==
    [][\A p \in Pubs :
         (<<ppc[p], todo[p]>>' # <<ppc[p], todo[p]>>) =>
             /\ <<done, subs, subCount>>' = <<done, subs, subCount>>
             /\ \A i \in Subs :
                   /\ chan'[i].alloc = chan[i].alloc
                   /\ chan'[i].closed = chan[i].closed
                   /\ chan'[i].cap = chan[i].cap
                   /\ \/ chan'[i].buf = chan[i].buf
                      \/ /\ ppc[p] = "send" /\ i \in snap[p]
                         /\ chan'[i].buf =
                                Append(chan[i].buf, [Type |-> pev[p].t,
                                                     Payload |-> pev[p].payload])]_vars

\* C25 witness: two subscriptions, registered before call 1 and still
\* registered and open on a running broker after every call of the run has
\* returned; slot 1 dropped events on its full buffer, slot 2 got them all.
C25_Witness ==
    /\ ~done /\ subs = {1, 2} /\ subCount = 2
    /\ \A i \in subs : ~chan[i].closed
    /\ \A p \in Pubs : ppc[p] = "idle"
    /\ Returned = 1..MaxPublish
    /\ Ids(Seen(1)) = [n \in 1..bufferSize |-> n]
    /\ received[1] = <<>>
    /\ Ids(Seen(2)) = [n \in 1..MaxPublish |-> n]

\* C26: The cleanup of a cancelled subscription touches only that
\* subscription: the cancellation itself changes nothing of the broker, and
\* the watcher's cleanup removes exactly its own channel from the active
\* set, lowers the count by exactly one, and leaves every other channel, its
\* membership and its buffer, as it was; a watcher runs the cleanup at most
\* once.
C26_CancelAffectsOnlyItsOwn ==
    [][\A i \in Subs :
         /\ (~cancelled[i] /\ cancelled'[i]) =>
                <<done, subs, subCount, chan>>' = <<done, subs, subCount, chan>>
         /\ (wpc[i] = "cleanup" /\ wpc'[i] # "cleanup") =>
                /\ wpc'[i] = "exit"
                /\ i \in subs
                /\ subs' = subs \ {i}
                /\ subCount' = subCount - 1
                /\ chan'[i].closed
                /\ \A o \in Subs \ {i} : chan'[o] = chan[o]
         /\ wpc[i] = "exit" => wpc'[i] = "exit"]_vars

\* C26 witness: on a running broker slot 1 was cancelled and cleaned up by
\* its watcher; slot 2 is still registered and open, holds the events of
\* calls 1 and 2 in its buffer, and the count is 1.
C26_Witness ==
    /\ ~done
    /\ closedBy[1] = "watcher" /\ wpc[1] = "exit" /\ removedAt[1] > 2
    /\ subs = {2} /\ subCount = 1
    /\ ~chan[2].closed /\ ~cancelled[2]
    /\ Ids(chan[2].buf) = <<1, 2>>

\* C28: Closing a channel discards nothing: the step that closes a channel
\* leaves its buffer as it is, from then on what the consumer has received
\* followed by what is buffered stays the same sequence (events move from
\* the buffer to the consumer, in order), and the consumer observes
\* end-of-stream only on a closed channel whose buffer is empty.
C28_CloseKeepsBuffered ==
    /\ [](\A i \in Subs : eos[i] => (chan[i].closed /\ chan[i].buf = <<>>))
    /\ [][\A i \in Subs :
            /\ (~chan[i].closed /\ chan'[i].closed /\ chan[i].alloc) =>
                   chan'[i].buf = chan[i].buf
            /\ (chan[i].closed /\ chan'[i].closed) => Seen(i)' = Seen(i)
            /\ (chan[i].closed /\ ~eos[i] /\ eos'[i]) =>
                   /\ chan[i].buf = <<>>
                   /\ received'[i] = received[i]]_vars

\* C28 witness: slot 2 was closed by Shutdown with a full buffer of which
\* its consumer, which had received nothing before, has received the first
\* event since; slot 1 was closed by its watcher and its consumer has
\* received both buffered events and then observed end-of-stream.
C28_Witness ==
    /\ closedBy[2] = "shutdown"
    /\ Ids(received[2]) = <<1>>
    /\ Len(chan[2].buf) = bufferSize - 1
    /\ ~eos[2]
    /\ closedBy[1] = "watcher"
    /\ Len(received[1]) = bufferSize
    /\ eos[1]

\* C29: The broker cannot deadlock.  An operation that waits for the broker
\* lock eventually has it and gives it back: a Shutdown call waiting in Lock
\* returns, the watcher of a cancelled scope runs to its end, and the lock,
\* once held for writing or for reading, is eventually free again.
C29_NoDeadlock ==
    /\ \A c \in Closers : (sdpc[c] = "lock") ~> (sdpc[c] = "returned")
    /\ \A i \in Subs : (wpc[i] = "wait" /\ cancelled[i]) ~> (wpc[i] = "exit")
    /\ mu.writer ~> ~mu.writer
    /\ (mu.readers > 0) ~> (mu.readers = 0)

\* On every run in which the program does not panic the lock requests are
\* served: C29 fails only on runs that end in a panic.
LockRequestsServedUnlessPanic ==
    /\ \A c \in Closers :
          (sdpc[c] = "lock") ~> (sdpc[c] = "returned" \/ ~Running)
    /\ \A i \in Subs :
          (wpc[i] = "wait" /\ cancelled[i]) ~> (wpc[i] = "exit" \/ ~Running)
    /\ mu.writer ~> (~mu.writer \/ ~Running)
    /\ (mu.readers > 0) ~> (mu.readers = 0 \/ ~Running)

\* No operation holds the lock while it waits for a channel or a scope: in
\* every state of a running program the holder of the write lock, and every
\* holder of the read lock, can take its next step.
LockHolderNeverWaits ==
    Running =>
       /\ \A c \in Closers :
             sdpc[c] = "sweep" =>
                 ENABLED (Shutdown_Sweep(c) \/ Shutdown_Finish(c))
       /\ \A i \in Subs :
             /\ spc[i] = "check" => ENABLED Subscribe_Check(i)
             /\ spc[i] = "register" => ENABLED Subscribe_Register(i)
             /\ wpc[i] = "check" => ENABLED Watcher_Check(i)
             /\ wpc[i] = "cleanup" => ENABLED Watcher_Cleanup(i)
       /\ \A p \in Pubs :
             ppc[p] = "snapshot" => ENABLED Publish_Snapshot(p)
       /\ mu.writer <=>
             \/ \E c \in Closers : sdpc[c] = "sweep"
             \/ \E i \in Subs : spc[i] \in {"check", "register"}
             \/ \E i \in Subs : wpc[i] \in {"check", "cleanup"}
       /\ mu.readers = Cardinality({p \in Pubs : ppc[p] = "snapshot"})

\* C27: There is no replay.  A subscription has nothing to receive before
\* its Subscribe call has returned, its channel starts empty, and every
\* event it ever holds is of a Publish call that took the read lock after
\* the Subscribe call took the write lock: never of a call that had returned
\* before the Subscribe call started.
C27_NoReplay ==
    /\ [](\A i \in Subs :
            /\ spc[i] # "returned" => Seen(i) = <<>>
            /\ \A n \in 1..Len(Seen(i)) :
                  /\ subAt[i] > 0
                  /\ Seen(i)[n].Payload >= subAt[i])
    /\ [][\A i \in Subs :
            (spc[i] # "returned" /\ spc'[i] = "returned") =>
                (chan'[i].buf = <<>> /\ received'[i] = <<>>)]_vars

\* C27 witness: slot 1 subscribed before call 1 and has seen all four
\* events; slot 2 subscribed after calls 1 and 2 had returned and has seen
\* exactly the events of calls 3 and 4.
C27_Witness ==
    /\ subAt[1] = 1 /\ subAt[2] = 3
    /\ {1, 2} \subseteq prior[3]
    /\ Ids(Seen(1)) = <<1, 2, 3, 4>>
    /\ Ids(Seen(2)) = <<3, 4>>

\* C23: The chat model reads its subscription only until the stream closes:
\* no waitForAgentMessage command is issued on a closed stream, and every
\* entry of the message list is the payload of an event the runtime
\* published with a tag other than Finished, the entries in the order of
\* the Publish calls.
C23_UIStopsAtClose ==
    /\ [](/\ \A n \in 1..Len(messages) :
                /\ messages[n] \in 1..(nextId - 1)
                /\ EventTypeOf(messages[n]) # "finished"
          /\ \A m, n \in 1..Len(messages) : m < n => messages[m] < messages[n])
    /\ [][(uiCmd # "waiting" /\ uiCmd' = "waiting") => ~chan[UISub].closed]_vars

\* C23 witness: the chat model has received the four events of a Run and
\* listed the three that are not Finished; the program has quit, main's
\* Runtime.Close has shut the broker down and closed the stream, and the
\* last command has returned and been dropped.
C23_Witness ==
    /\ uiState = "quit"
    /\ ShutdownComplete
    /\ chan[UISub].closed /\ chan[UISub].buf = <<>>
    /\ closedBy[UISub] = "shutdown"
    /\ Ids(received[UISub]) = <<1, 2, 3, 4>>
    /\ messages = <<1, 2, 3>>
    /\ uiCmd = "none"


\* The agent events of a Run call with their positions.
Numbered(ev) == [n \in 1..Len(ev) |-> [kind |-> ev[n], event |-> n]]

\* The agent output messages of a Run call, in the order of the iterator.
OutputsOf(ev) == SelectSeq(Numbered(ev), LAMBDA e : HasMessageOutput(e.kind))

\* The events a Run call has published conform to Created(user message),
\* then one Updated per agent output message so far, in order.
RunLogSoFar(r) ==
    /\ Len(rlog[r]) >= 1
    /\ rlog[r][1].Type = "created" /\ rlog[r][1].Payload.what = "user"
    /\ \A n \in 1..Len(OutputsOf(revents[r])) :
          /\ n + 1 <= Len(rlog[r])
          /\ rlog[r][n + 1].Type = "updated"
          /\ rlog[r][n + 1].Payload.event = OutputsOf(revents[r])[n].event

\* C24: a Run call that returns without error has published, in order, one
\* Created event with the user message, one Updated event per agent output
\* message, and exactly one Finished event; it publishes nothing after the
\* Finished event; a Run call that fails to store the user message publishes
\* nothing.
C24_RunPublishesInOrder ==
    /\ [](\A r \in Runs :
            /\ rpc[r] \in {"idle", "stored", "failedStore"} => rlog[r] = <<>>
            /\ rpc[r] \in {"list", "failedList", "iter", "finish"} =>
                  /\ RunLogSoFar(r)
                  /\ Len(rlog[r]) = 1 + Len(OutputsOf(revents[r]))
            /\ rpc[r] = "returned" =>
                  /\ RunLogSoFar(r)
                  /\ Len(rlog[r]) = 2 + Len(OutputsOf(revents[r]))
                  /\ rlog[r][Len(rlog[r])].Type = "finished"
                  /\ rlog[r][Len(rlog[r])].Payload.what = "nil"
                  /\ \A n \in 1..(Len(rlog[r]) - 1) :
                        rlog[r][n].Type # "finished")
    /\ [][\A r \in Runs :
             rpc[r] \in {"returned", "failedStore"} =>
                 rlog'[r] = rlog[r] /\ rpc'[r] = rpc[r]]_vars

\* One Run call has returned after an event without output, a message and a
\* message that could not be read; the other has failed to store.
C24_Witness ==
    /\ rpc["r1"] = "returned"
    /\ revents["r1"] = <<"noOutput", "message", "badMessage">>
    /\ Len(rlog["r1"]) = 4
    /\ rlog["r1"][2].Payload = [what |-> "message", event |-> 2]
    /\ rlog["r1"][3].Payload = [what |-> "error", event |-> 3]
    /\ rlog["r1"][4].Type = "finished"
    /\ rpc["r2"] = "failedStore" /\ rlog["r2"] = <<>>

\* The stored form of an added message: a tool response longer than
\* maxToolResponse is cut and marked.
StoredForm(msg) ==
    IF msg.Role = "tool" /\ msg.len > maxToolResponse
    THEN [msg EXCEPT !.len = msg.cut, !.truncated = TRUE]
    ELSE msg

\* The stored forms of the last maxMessages of the first n added messages.
RecentStored(n) ==
    LET k == IF n > maxMessages THEN maxMessages ELSE n
    IN  [i \in 1..k |-> StoredForm(added[n - k + i])]

\* The last maxMessages of the first n added messages, as they were passed
\* to Add.
RecentAdded(n) ==
    LET k == IF n > maxMessages THEN maxMessages ELSE n
    IN  [i \in 1..k |-> added[n - k + i]]

\* C30 as stated: what List returns are the most recently added messages
\* themselves, in the order of their addition.
C30_ListIsRecentAdded ==
    \A l \in Listers : \E n \in 0..Len(added) : listed[l] = RecentAdded(n)

\* C30, amended: List returns at most maxMessages messages; they are the
\* stored forms (a long tool response cut) of the messages most recently
\* added when List ran, in the order of their addition; a list once
\* returned is not changed by later Add calls.
C30_ListIsRecentStored ==
    /\ [](/\ smsgs = RecentStored(Len(added))
          /\ \A l \in Listers :
                /\ Len(listed[l]) <= maxMessages
                /\ \E n \in 0..Len(added) : listed[l] = RecentStored(n))
    /\ [][\A l \in Listers :
             /\ listpc[l] = "locked" /\ listpc'[l] = "idle" =>
                   listed'[l] = RecentStored(Len(added))
             /\ listpc'[l] = listpc[l] => listed'[l] = listed[l]]_vars

\* List has returned a full window that starts behind the first message and
\* holds a cut tool response; Add calls that overtook each other and a later
\* Add have changed the store, not the list.
C30_Witness ==
    /\ Len(added) = MaxAdds
    /\ listpc["l1"] = "idle"
    /\ Len(listed["l1"]) = maxMessages
    /\ listed["l1"] = RecentStored(MaxAdds - 1)
    /\ listed["l1"] # smsgs
    /\ \E i \in 1..maxMessages : listed["l1"][i].truncated
    /\ \E i \in 1..(MaxAdds - 1) : added[i].id > added[i + 1].id
====
